---------------------------- MODULE Spec2Model ----------------------------
(***************************************************************************)
(* Model of django-htk's CPQ billing models (apps/cpq/models.py) and of    *)
(* the view helpers (view_helpers.py).                                     *)
(*                                                                         *)
(* Four specifications share the module's variables; each one moves the    *)
(* variables of its own subsystem and leaves the others at their initial   *)
(* value:                                                                  *)
(*   Spec      a quote, its group quote, their line items, the payment     *)
(*             list, the Stripe charges and one in-memory quote instance,  *)
(*             with every operation running to completion (one request at  *)
(*             a time);                                                    *)
(*   SpecConc  two requests running approve_and_pay on the same quote,     *)
(*             interleaved at get_attribute / set_attribute;               *)
(*   SpecWrap  wrap_data and get_asset_version;                            *)
(*   SpecJs    get_javascripts and render_to_response_custom.              *)
(*                                                                         *)
(* Money: unit_cost is a CurrencyField (two decimal places) and is held in *)
(* hundredths; Stripe amounts are integer cents.  The module is Python 2   *)
(* code (__unicode__, django.core.urlresolvers), so `/` on two integers is *)
(* floor division.                                                         *)
(***************************************************************************)
EXTENDS Integers, Sequences, FiniteSets, TLC

VARIABLES
    \* ---- apps/cpq/models.py: the database and one in-memory quote ----
    group_quote,      \* BaseCPQQuote.group_quote: NoGroupQuote or "group_quote"
    notes,            \* AbstractCPQQuote.notes of each document
    line_items,       \* the line_items related set of each document, in id order
    customer_attrs,   \* the customer's attribute 'quote_<id>_payments' (JSON text)
    charges,          \* the Stripe charges, each owned by a Stripe customer
    cached_status,    \* the instance's memoised payment_status
    had_line_item,    \* history: the quote has had an own line item at some time
    \* ---- two requests inside approve_and_pay ----
    pc,               \* per request: "idle", "read" (after get_payments), "done"
    payments_local,   \* per request: the local `payments` list
    stripe_customer,  \* per request: the id of the stripe_customer argument
    \* ---- view_helpers.py: wrap_data ----
    request,          \* the HttpRequest
    settings,         \* django.conf.settings: ENV_DEV, ROLLBAR_ENV
    asset_cache,      \* StaticAssetVersionCache's value, or NoVersion
    utc_hour,         \* utcnow().strftime('%Y%m%d%H')
    data_passed,      \* whether the caller passed a mapping (data is not None)
    caller_data,      \* the caller's mapping object
    returned,         \* the mapping the last call returned
    returned_is_data, \* whether it is the caller's mapping object itself
    \* ---- view_helpers.py: get_javascripts ----
    template_name,
    template_prefix,
    templates,        \* the names the template loader can load
    javascripts       \* the result of get_javascripts

quoteVars == <<group_quote, notes, line_items, customer_attrs, charges,
               cached_status, had_line_item>>
concVars  == <<pc, payments_local, stripe_customer>>
wrapVars  == <<request, settings, asset_cache, utc_hour, data_passed, caller_data,
               returned, returned_is_data>>
jsVars    == <<template_name, template_prefix, templates, javascripts>>
vars      == <<quoteVars, concVars, wrapVars, jsVars>>

---------------------------------------------------------------------------
(* Bounds of the model *)

MaxItems == 2        \* line items over the quote and the group quote
MaxPayments == 2     \* entries of the payment list
MaxCharges == 2      \* Stripe charges

(* Values the inputs are drawn from *)

StripeCustomerIds == {1, 2}
ChargeAmounts == {150}           \* cents
RefundAmounts == {100}           \* cents, added to amount_refunded

Docs == {"quote", "group_quote"}
NoGroupQuote == "None"
NotCached == "not cached"
StatusLabels == {"Not Paid", "Partially Paid", "Paid in Full"}

\* unit_cost in hundredths of the currency unit
LineItems == {[unit_cost |-> 50, quantity |-> 1],
              [unit_cost |-> 150, quantity |-> 2]}

---------------------------------------------------------------------------
(* json.dumps / json.loads of a list of small integers, character by       *)
(* character: [1, 2] <-> "[1, 2]".                                          *)

DigitChars == <<"0", "1", "2", "3", "4", "5", "6", "7", "8", "9">>

IntToChar(n) == DigitChars[n + 1]

CharToInt(c) == CHOOSE n \in 0..9 : DigitChars[n + 1] = c

RECURSIVE JoinInts(_)
JoinInts(s) ==
    IF s = <<>> THEN <<>>
    ELSE IF Len(s) = 1 THEN <<IntToChar(s[1])>>
    ELSE <<IntToChar(s[1]), ",", " ">> \o JoinInts(Tail(s))

json_dumps(s) == <<"[">> \o JoinInts(s) \o <<"]">>

RECURSIVE ParseInts(_)
ParseInts(text) ==
    IF text = <<>> THEN <<>>
    ELSE IF text[1] \in {"[", "]", ",", " "} THEN ParseInts(Tail(text))
    ELSE <<CharToInt(text[1])>> \o ParseInts(Tail(text))

json_loads(text) == ParseInts(text)

---------------------------------------------------------------------------
(* The customer's attribute store (htk attribute holder).  A missing key   *)
(* reads as None, which get_payments treats like the empty string.         *)

NoAttribute == <<>>

PaymentsKey == "quote_1_payments"

get_attribute(attrs, key) == attrs[key]

set_attribute(attrs, key, value) == [attrs EXCEPT ![key] = value]

---------------------------------------------------------------------------
(* AbstractCPQQuote / BaseCPQQuote / BaseCPQLineItem *)

\* faulty variant: the quantity is left out of the amount
get_amount_unit_cost(line_item) == line_item.unit_cost

get_amount(line_item) == line_item.unit_cost * line_item.quantity

\* faulty variant: the check of the quote's own line items is left out
use_group_quote_any(gq, items) == gq # NoGroupQuote

use_group_quote_of(gq, items) == gq # NoGroupQuote /\ items["quote"] = <<>>

use_group_quote == use_group_quote_of(group_quote, line_items)

\* faulty variant: once the quote has had a line item it never delegates again
get_notes_sticky(doc) ==
    IF doc = "quote" /\ use_group_quote /\ ~had_line_item THEN notes[group_quote]
    ELSE notes[doc]

get_notes(doc) ==
    IF doc = "quote" /\ use_group_quote THEN notes[group_quote] ELSE notes[doc]

get_line_items(doc) ==
    IF doc = "quote" /\ use_group_quote THEN line_items[group_quote]
    ELSE line_items[doc]

RECURSIVE SumAmounts(_)
SumAmounts(items) ==
    IF items = <<>> THEN 0
    ELSE get_amount(Head(items)) + SumAmounts(Tail(items))

get_total(doc) == SumAmounts(get_line_items(doc))

payments_of(attrs) ==
    LET payments == get_attribute(attrs, PaymentsKey)
    IN  IF payments # NoAttribute THEN json_loads(payments) ELSE <<>>

get_payments == payments_of(customer_attrs)

\* faulty variant: the new reference is put in front of the list
approve_and_pay_write_front(attrs, payments, stripe_customer_id) ==
    set_attribute(attrs, PaymentsKey,
                  json_dumps(<<stripe_customer_id>> \o payments))

approve_and_pay_write(attrs, payments, stripe_customer_id) ==
    set_attribute(attrs, PaymentsKey,
                  json_dumps(Append(payments, stripe_customer_id)))

(* StripeCustomer.get_charges: the charges of one Stripe customer *)
customer_charges(stripe_customer_id) ==
    SelectSeq(charges, LAMBDA c : c.customer = stripe_customer_id)

RECURSIVE ChargesOf(_)
ChargesOf(payments) ==
    IF payments = <<>> THEN <<>>
    ELSE customer_charges(Head(payments)) \o ChargesOf(Tail(payments))

get_charges == ChargesOf(get_payments)

CentsPerUnit == 100

\* faulty variant: the refunded amount is not subtracted
charge_paid_gross(charge) == charge.amount \div CentsPerUnit

charge_paid(charge) ==
    (charge.amount \div CentsPerUnit) - (charge.amount_refunded \div CentsPerUnit)

RECURSIVE SumPaid(_)
SumPaid(cs) ==
    IF cs = <<>> THEN 0 ELSE charge_paid(Head(cs)) + SumPaid(Tail(cs))

RECURSIVE AmountPaidOf(_)
AmountPaidOf(payments) ==
    IF payments = <<>> THEN 0
    ELSE SumPaid(customer_charges(Head(payments))) + AmountPaidOf(Tail(payments))

get_amount_paid == AmountPaidOf(get_payments)

(* amount_paid is in whole currency units, total in hundredths *)
\* faulty variant: the boundary amount_paid = total counts as partially paid
status_of_le(amount_paid, total) ==
    IF amount_paid = 0 THEN "Not Paid"
    ELSE IF amount_paid * CentsPerUnit <= total THEN "Partially Paid"
    ELSE "Paid in Full"

status_of(amount_paid, total) ==
    IF amount_paid = 0 THEN "Not Paid"
    ELSE IF amount_paid * CentsPerUnit < total THEN "Partially Paid"
    ELSE "Paid in Full"

payment_status == status_of(get_amount_paid, get_total("quote"))

(* htk.utils.cache_descriptors.CachedAttribute: the first read computes    *)
(* the value and stores it on the instance; later reads return it.         *)
CachedAttribute(stored, computed) ==
    IF stored # NotCached THEN stored ELSE computed

---------------------------------------------------------------------------
(* Operations on the quote, one request at a time *)

TotalItems == Len(line_items["quote"]) + Len(line_items["group_quote"])

RemoveAt(s, i) == SubSeq(s, 1, i - 1) \o SubSeq(s, i + 1, Len(s))

AddLineItem(doc, li) ==
    /\ TotalItems < MaxItems
    /\ line_items' = [line_items EXCEPT ![doc] = Append(@, li)]
    /\ had_line_item' = (had_line_item \/ doc = "quote")
    /\ UNCHANGED <<group_quote, notes, customer_attrs, charges, cached_status>>
    /\ UNCHANGED <<concVars, wrapVars, jsVars>>

RemoveLineItem(doc, i) ==
    /\ i \in 1..Len(line_items[doc])
    /\ line_items' = [line_items EXCEPT ![doc] = RemoveAt(@, i)]
    /\ UNCHANGED <<group_quote, notes, customer_attrs, charges, cached_status,
                   had_line_item>>
    /\ UNCHANGED <<concVars, wrapVars, jsVars>>

approve_and_pay(stripe_customer_id) ==
    /\ Len(get_payments) < MaxPayments
    /\ customer_attrs' =
           approve_and_pay_write(customer_attrs, get_payments, stripe_customer_id)
    /\ UNCHANGED <<group_quote, notes, line_items, charges, cached_status,
                   had_line_item>>
    /\ UNCHANGED <<concVars, wrapVars, jsVars>>

CreateCharge(stripe_customer_id, amount) ==
    /\ Len(charges) < MaxCharges
    /\ charges' = Append(charges, [customer |-> stripe_customer_id,
                                   amount |-> amount, amount_refunded |-> 0])
    /\ UNCHANGED <<group_quote, notes, line_items, customer_attrs, cached_status,
                   had_line_item>>
    /\ UNCHANGED <<concVars, wrapVars, jsVars>>

RefundCharge(i, r) ==
    /\ i \in 1..Len(charges)
    /\ charges[i].amount_refunded + r <= charges[i].amount
    /\ charges' = [charges EXCEPT ![i].amount_refunded = @ + r]
    /\ UNCHANGED <<group_quote, notes, line_items, customer_attrs, cached_status,
                   had_line_item>>
    /\ UNCHANGED <<concVars, wrapVars, jsVars>>

\* faulty variant: a plain property, computed on every read
ReadPaymentStatus_uncached ==
    /\ cached_status' = payment_status
    /\ UNCHANGED <<group_quote, notes, line_items, customer_attrs, charges,
                   had_line_item>>
    /\ UNCHANGED <<concVars, wrapVars, jsVars>>

ReadPaymentStatus ==
    /\ cached_status' = CachedAttribute(cached_status, payment_status)
    /\ UNCHANGED <<group_quote, notes, line_items, customer_attrs, charges,
                   had_line_item>>
    /\ UNCHANGED <<concVars, wrapVars, jsVars>>

LoadInstance ==
    /\ cached_status' = NotCached
    /\ UNCHANGED <<group_quote, notes, line_items, customer_attrs, charges,
                   had_line_item>>
    /\ UNCHANGED <<concVars, wrapVars, jsVars>>

---------------------------------------------------------------------------
(* view_helpers.py: wrap_data and get_asset_version.                        *)
(* A context mapping is a function from keys to values; every value is a    *)
(* record of strings: Leaf(s) for a plain value (text, or the repr of None, *)
(* a boolean, a list), a record with several fields for a nested mapping.   *)

EmptyDict == <<>>
Leaf(s) == [value |-> s]
NoVersion == "None"
NoParam == "absent"
AnonymousUser == "AnonymousUser"

Put(d, k, v) == [x \in DOMAIN d \cup {k} |-> IF x = k THEN v ELSE d[x]]

Update(d, e) == [x \in DOMAIN d \cup DOMAIN e |-> IF x \in DOMAIN e THEN e[x] ELSE d[x]]

HttpRequests ==
    [path : {"/", "/quotes"}, host : {"example.com"}, is_secure : BOOLEAN,
     user : {AnonymousUser, "alice"}, useless : {NoParam, "", "1"},
     csrf_token : {"token"}]

Settings == [ENV_DEV : BOOLEAN, ROLLBAR_ENV : {"production"}]

AssetVersions == {"v7"}
UtcHours == {"2015010100", "2015010101"}

BaseMappings ==
    { EmptyDict,
      [k \in {"title"} |-> Leaf("Quotes")],
      [k \in {"title", "user"} |-> IF k = "title" THEN Leaf("Quotes") ELSE Leaf("bob")],
      [k \in {"errors"} |-> Leaf("['missing date']")] }

PyBool(b) == IF b THEN "True" ELSE "False"

csrf(req) == [k \in {"csrf_token"} |-> Leaf(req.csrf_token)]

gethostname == "web1"

get_asset_version ==
    IF asset_cache = NoVersion THEN utc_hour ELSE asset_cache

\* settings.ENV_DEV and request.GET.get('useless', False), as a truth value
useless_of(req) ==
    settings.ENV_DEV /\ req.useless # NoParam /\ req.useless # ""

wrap_data_result(req, data) ==
    LET d1 == Update(data, csrf(req))
        is_secure == req.is_secure
        full_uri == "http" \o (IF is_secure THEN "s" ELSE "") \o "://"
                    \o req.host \o req.path
        d2 == Put(d1, "request",
                  [request |-> "<HttpRequest>", is_secure |-> PyBool(is_secure),
                   host |-> req.host, path |-> req.path, full_uri |-> full_uri])
        d3 == Put(d2, "server", [hostname |-> gethostname])
        d4 == Put(d3, "rollbar_env", Leaf(settings.ROLLBAR_ENV))
        asset_version == get_asset_version
        useless == useless_of(req)
        d5 == Put(d4, "css_rel",
                  Leaf(IF useless THEN "stylesheet/less" ELSE "stylesheet"))
        d6 == Put(d5, "css_ext",
                  Leaf(IF useless THEN "less" ELSE "css?v=" \o asset_version))
        d7 == Put(d6, "asset_version", Leaf(asset_version))
        user == IF req.user # AnonymousUser THEN req.user ELSE "None"
        d8 == Put(d7, "user", Leaf(user))
    IN  Put(d8, "errors", Leaf("[]"))

\* faulty variant: the enriched context is built in a copy of the caller's mapping
wrap_data_copy ==
    /\ returned' = wrap_data_result(request, caller_data)
    /\ returned_is_data' = FALSE
    /\ UNCHANGED <<request, settings, asset_cache, utc_hour, data_passed,
                   caller_data>>
    /\ UNCHANGED <<quoteVars, concVars, jsVars>>

\* wrap_data(request, data): with data None a new mapping is filled and
\* returned; otherwise the caller's mapping object itself is.
wrap_data ==
    /\ returned' = wrap_data_result(request, caller_data)
    /\ returned_is_data' = data_passed
    /\ caller_data' = IF data_passed THEN returned' ELSE caller_data
    /\ UNCHANGED <<request, settings, asset_cache, utc_hour, data_passed>>
    /\ UNCHANGED <<quoteVars, concVars, jsVars>>

\* the view builds the mapping it is going to pass, or passes none
PrepareData(d) ==
    /\ data_passed' = TRUE
    /\ caller_data' = d
    /\ returned' = EmptyDict
    /\ returned_is_data' = FALSE
    /\ UNCHANGED <<request, settings, asset_cache, utc_hour>>
    /\ UNCHANGED <<quoteVars, concVars, jsVars>>

PrepareNone ==
    /\ data_passed' = FALSE
    /\ caller_data' = EmptyDict
    /\ returned' = EmptyDict
    /\ returned_is_data' = FALSE
    /\ UNCHANGED <<request, settings, asset_cache, utc_hour>>
    /\ UNCHANGED <<quoteVars, concVars, jsVars>>

\* a deployment stores a new asset version in the cache
Deploy(v) ==
    /\ asset_cache' = v
    /\ UNCHANGED <<request, settings, utc_hour, data_passed, caller_data,
                   returned, returned_is_data>>
    /\ UNCHANGED <<quoteVars, concVars, jsVars>>

ClockTick(h) ==
    /\ h # utc_hour
    /\ utc_hour' = h
    /\ UNCHANGED <<request, settings, asset_cache, data_passed, caller_data,
                   returned, returned_is_data>>
    /\ UNCHANGED <<quoteVars, concVars, jsVars>>


---------------------------------------------------------------------------
(* view_helpers.py: get_javascripts and render_to_response_custom.          *)
(* Names are sequences of characters.  template_prefix is interpolated into *)
(* the regular expression as it is, so its characters are pattern           *)
(* characters: "." matches any character but a newline, the other           *)
(* characters used here match themselves.  re.match anchors the pattern at  *)
(* the start of the name only, and the group after it takes the rest of    *)
(* the name up to a newline.                                                *)

AdminTools == <<"a", "d", "m", "i", "n", "t", "o", "o", "l", "s", "/">>
FragmentsJs == <<"f", "r", "a", "g", "m", "e", "n", "t", "s", "/", "j", "s", "/">>
Newline == "\n"

TemplatePrefixes == { <<>>, <<"a", "/">>, <<"a", ".", "/">> }

NameHeads == { <<>>, <<"a", "/">>, <<"a", ".", "/">>, <<"a", "b", "/">> }
NameRests == { <<"p">>, <<"p", ".", "h">> }

TemplateNames ==
    {h \o r : h \in NameHeads, r \in NameRests}
        \cup {h \o AdminTools \o r : h \in NameHeads, r \in NameRests}

\* the pattern (no group yet) matches a prefix of the text
re_match(pattern, text) ==
    /\ Len(text) >= Len(pattern)
    /\ \A i \in 1..Len(pattern) :
          IF pattern[i] = "." THEN text[i] # Newline ELSE text[i] = pattern[i]

\* group(1) of the pattern followed by a dot-star group: the characters after
\* the match, up to a newline
RECURSIVE UpToNewline(_)
UpToNewline(text) ==
    IF text = <<>> \/ Head(text) = Newline THEN <<>>
    ELSE <<Head(text)>> \o UpToNewline(Tail(text))

group1(pattern, text) == UpToNewline(SubSeq(text, Len(pattern) + 1, Len(text)))

js_fragment_filename(name, prefix) ==
    IF re_match(prefix \o AdminTools, name)
    THEN prefix \o AdminTools \o FragmentsJs \o group1(prefix \o AdminTools, name)
    ELSE IF re_match(prefix, name)
         THEN prefix \o FragmentsJs \o group1(prefix, name)
         ELSE FragmentsJs \o name

\* loader.get_template raises TemplateDoesNotExist for a name it cannot load
get_javascripts(name, prefix, loadable) ==
    LET js == js_fragment_filename(name, prefix)
    IN  IF js \in loadable THEN <<js>> ELSE <<>>

StartsWith(text, start) ==
    Len(text) >= Len(start) /\ SubSeq(text, 1, Len(start)) = start

After(text, start) == SubSeq(text, Len(start) + 1, Len(text))

\* the candidate path for a prefix read as plain text
LiteralCandidate(name, prefix) ==
    IF StartsWith(name, prefix \o AdminTools)
    THEN prefix \o AdminTools \o FragmentsJs \o After(name, prefix \o AdminTools)
    ELSE IF StartsWith(name, prefix)
         THEN prefix \o FragmentsJs \o After(name, prefix)
         ELSE FragmentsJs \o name

TemplateFiles ==
    {js_fragment_filename(n, p) : n \in TemplateNames, p \in TemplatePrefixes}
        \cup {LiteralCandidate(n, p) : n \in TemplateNames, p \in TemplatePrefixes}

MaxTemplates == 1

\* a view picks the template to render
SelectTemplate(name, prefix) ==
    /\ template_name' = name
    /\ template_prefix' = prefix
    /\ javascripts' = <<>>
    /\ UNCHANGED templates
    /\ UNCHANGED <<quoteVars, concVars, wrapVars>>

AddTemplate(t) ==
    /\ Cardinality(templates) < MaxTemplates
    /\ templates' = templates \cup {t}
    /\ UNCHANGED <<template_name, template_prefix, javascripts>>
    /\ UNCHANGED <<quoteVars, concVars, wrapVars>>

RemoveTemplate(t) ==
    /\ t \in templates
    /\ templates' = templates \ {t}
    /\ UNCHANGED <<template_name, template_prefix, javascripts>>
    /\ UNCHANGED <<quoteVars, concVars, wrapVars>>

\* data['javascripts'] = get_javascripts(template_name, template_prefix)
render_to_response_custom ==
    /\ javascripts' = get_javascripts(template_name, template_prefix, templates)
    /\ UNCHANGED <<template_name, template_prefix, templates>>
    /\ UNCHANGED <<quoteVars, concVars, wrapVars>>

---------------------------------------------------------------------------
(* Initial values of the subsystems *)

InitNotes == [d \in Docs |-> IF d = "quote" THEN "quote notes" ELSE "group notes"]

QuoteInit ==
    /\ group_quote \in {NoGroupQuote, "group_quote"}
    /\ notes = InitNotes
    /\ line_items = [d \in Docs |-> <<>>]
    /\ customer_attrs = [k \in {PaymentsKey} |-> NoAttribute]
    /\ charges = <<>>
    /\ cached_status = NotCached
    /\ had_line_item = FALSE

ConcIdle ==
    /\ pc = [r \in {1, 2} |-> "idle"]
    /\ payments_local = [r \in {1, 2} |-> <<>>]
    /\ stripe_customer = [r \in {1, 2} |-> 1]

WrapIdle ==
    /\ request = [path |-> "/", host |-> "example.com", is_secure |-> FALSE,
                  user |-> AnonymousUser, useless |-> NoParam,
                  csrf_token |-> "token"]
    /\ settings = [ENV_DEV |-> FALSE, ROLLBAR_ENV |-> "production"]
    /\ asset_cache = NoVersion
    /\ utc_hour = "2015010100"
    /\ data_passed = FALSE
    /\ caller_data = EmptyDict
    /\ returned = EmptyDict
    /\ returned_is_data = FALSE

JsIdle ==
    /\ template_name = <<"p">>
    /\ template_prefix = <<>>
    /\ templates = {}
    /\ javascripts = <<>>

Init == QuoteInit /\ ConcIdle /\ WrapIdle /\ JsIdle

Next ==
    \/ \E doc \in Docs, li \in LineItems : AddLineItem(doc, li)
    \/ \E doc \in Docs, i \in 1..MaxItems : RemoveLineItem(doc, i)
    \/ \E sc \in StripeCustomerIds : approve_and_pay(sc)
    \/ \E sc \in StripeCustomerIds, a \in ChargeAmounts : CreateCharge(sc, a)
    \/ \E i \in 1..MaxCharges, r \in RefundAmounts : RefundCharge(i, r)
    \/ ReadPaymentStatus
    \/ LoadInstance

Spec == Init /\ [][Next]_vars

InitWrap ==
    /\ QuoteInit /\ ConcIdle /\ JsIdle
    /\ request \in HttpRequests
    /\ settings \in Settings
    /\ asset_cache = NoVersion
    /\ utc_hour = "2015010100"
    /\ data_passed = FALSE
    /\ caller_data = EmptyDict
    /\ returned = EmptyDict
    /\ returned_is_data = FALSE

NextWrap ==
    \/ wrap_data
    \/ \E d \in BaseMappings : PrepareData(d)
    \/ PrepareNone
    \/ \E v \in AssetVersions : Deploy(v)
    \/ \E h \in UtcHours : ClockTick(h)

SpecWrap == InitWrap /\ [][NextWrap]_vars

InitJs ==
    /\ QuoteInit /\ ConcIdle /\ WrapIdle
    /\ template_name \in TemplateNames
    /\ template_prefix \in TemplatePrefixes
    /\ templates = {}
    /\ javascripts = <<>>

NextJs ==
    \/ \E n \in TemplateNames, p \in TemplatePrefixes : SelectTemplate(n, p)
    \/ \E t \in TemplateFiles : AddTemplate(t)
    \/ \E t \in TemplateFiles : RemoveTemplate(t)
    \/ render_to_response_custom

SpecJs == InitJs /\ [][NextJs]_vars

---------------------------------------------------------------------------
(* approve_and_pay run by two requests on the same quote.  Each request     *)
(* holds its own `payments` list between the read of the attribute in       *)
(* get_payments and the write in set_attribute.                             *)

Requests == {1, 2}

ReadPayments(r, sc) ==
    /\ pc[r] = "idle"
    /\ Len(get_payments) < MaxPayments
    /\ payments_local' = [payments_local EXCEPT ![r] = get_payments]
    /\ stripe_customer' = [stripe_customer EXCEPT ![r] = sc]
    /\ pc' = [pc EXCEPT ![r] = "read"]
    /\ UNCHANGED <<quoteVars, wrapVars, jsVars>>

\* faulty variant: the append is made on the list as stored at the time of the write
WritePayments_atomic(r) ==
    /\ pc[r] = "read"
    /\ customer_attrs' =
           approve_and_pay_write(customer_attrs, get_payments, stripe_customer[r])
    /\ pc' = [pc EXCEPT ![r] = "done"]
    /\ UNCHANGED <<group_quote, notes, line_items, charges, cached_status,
                   had_line_item, payments_local, stripe_customer>>
    /\ UNCHANGED <<wrapVars, jsVars>>

WritePayments(r) ==
    /\ pc[r] = "read"
    /\ customer_attrs' =
           approve_and_pay_write(customer_attrs, payments_local[r],
                                 stripe_customer[r])
    /\ pc' = [pc EXCEPT ![r] = "done"]
    /\ UNCHANGED <<group_quote, notes, line_items, charges, cached_status,
                   had_line_item, payments_local, stripe_customer>>
    /\ UNCHANGED <<wrapVars, jsVars>>

\* the request ends; its locals are gone
Return(r) ==
    /\ pc[r] = "done"
    /\ pc' = [pc EXCEPT ![r] = "idle"]
    /\ payments_local' = [payments_local EXCEPT ![r] = <<>>]
    /\ stripe_customer' = [stripe_customer EXCEPT ![r] = 1]
    /\ UNCHANGED <<quoteVars, wrapVars, jsVars>>

NextConc ==
    \/ \E r \in Requests, sc \in StripeCustomerIds : ReadPayments(r, sc)
    \/ \E r \in Requests : WritePayments(r)
    \/ \E r \in Requests : Return(r)

SpecConc == Init /\ [][NextConc]_vars

---------------------------------------------------------------------------
(* Properties of the quote, under Spec *)

OwnNotes == notes["quote"]
OwnItems == line_items["quote"]
GroupNotes == notes["group_quote"]
GroupItems == line_items["group_quote"]

\* C1 as stated: the label is one of the three, 'Not Paid' when amount_paid = 0,
\* 'Partially Paid' when 0 < amount_paid < total, 'Paid in Full' when
\* amount_paid >= total.  (Fails for amount_paid = total = 0.)
C1_Original ==
    LET ap == get_amount_paid * CentsPerUnit
        t  == get_total("quote")
    IN  /\ payment_status \in StatusLabels
        /\ (ap = 0 => payment_status = "Not Paid")
        /\ (0 < ap /\ ap < t => payment_status = "Partially Paid")
        /\ (ap >= t => payment_status = "Paid in Full")

\* C1, amended: the label payment_status computes is 'Not Paid' exactly when
\* amount_paid = 0, 'Partially Paid' exactly when 0 < amount_paid < total, and
\* 'Paid in Full' exactly when amount_paid > 0 and amount_paid >= total.
C1_PaymentStatusRule ==
    LET ap == get_amount_paid * CentsPerUnit
        t  == get_total("quote")
    IN  /\ ap >= 0 /\ t >= 0
        /\ payment_status \in StatusLabels
        /\ (payment_status = "Not Paid" <=> ap = 0)
        /\ (payment_status = "Partially Paid" <=> (0 < ap /\ ap < t))
        /\ (payment_status = "Paid in Full" <=> (0 < ap /\ ap >= t))

C1_Witness ==
    /\ get_amount_paid > 0
    /\ get_amount_paid * CentsPerUnit = get_total("quote")
    /\ payment_status = "Paid in Full"

IsPrefix(s, t) == Len(s) <= Len(t) /\ SubSeq(t, 1, Len(s)) = s

\* C2: with one operation at a time, the payment list only grows by
\* appending: a step that changes the stored attribute makes get_payments the
\* old list plus one last element, approve_and_pay(stripe_customer) is such a
\* step and the element it adds is stripe_customer.id; every other step
\* leaves the list as it was.
C2_PaymentsOnlyAppend ==
    [][ IF customer_attrs' = customer_attrs
        THEN UNCHANGED <<line_items, charges, cached_status>>
                 => \A sc \in StripeCustomerIds : ~approve_and_pay(sc)
        ELSE LET before == get_payments
                 after  == get_payments'
             IN  /\ IsPrefix(before, after)
                 /\ Len(after) = Len(before) + 1
                 /\ \A sc \in StripeCustomerIds :
                        approve_and_pay(sc) => after = Append(before, sc)
      ]_vars

C2_Witness == get_payments = <<2, 1>>

\* C3: get_notes and get_line_items of a quote return the group quote's
\* values exactly when group_quote is set and the quote has no own line item,
\* and the quote's own values otherwise.
C3_Delegation ==
    IF group_quote # NoGroupQuote /\ OwnItems = <<>>
    THEN get_notes("quote") = GroupNotes /\ get_line_items("quote") = GroupItems
    ELSE get_notes("quote") = OwnNotes /\ get_line_items("quote") = OwnItems

C3_Witness ==
    /\ group_quote # NoGroupQuote
    /\ OwnItems = <<>>
    /\ GroupItems # <<>>
    /\ get_line_items("quote") = GroupItems
    /\ get_notes("quote") = "group notes"

\* C4 as stated: for a quote with group_quote set, once an own line item has
\* been added the quote's own notes and line items are returned ever after.
C4_Original ==
    (group_quote # NoGroupQuote /\ had_line_item)
        => (get_notes("quote") = OwnNotes /\ get_line_items("quote") = OwnItems)

\* C4, amended: for a quote with group_quote set that has had an own line
\* item, the own values are returned while it has at least one own line item,
\* and the group quote's values again once removals leave it with none.
C4_DelegationResumes ==
    (group_quote # NoGroupQuote /\ had_line_item)
        => IF OwnItems # <<>>
           THEN get_notes("quote") = OwnNotes /\ get_line_items("quote") = OwnItems
           ELSE get_notes("quote") = GroupNotes
                /\ get_line_items("quote") = GroupItems

C4_Witness ==
    /\ group_quote # NoGroupQuote
    /\ had_line_item
    /\ OwnItems = <<>>
    /\ GroupItems # <<>>
    /\ get_notes("quote") = "group notes"
    /\ get_line_items("quote") = GroupItems

\* C5: a read of payment_status on an instance that has read it before
\* returns the label of the first read, whatever happened in between; only a
\* fresh instance forgets it, and the first read on an instance computes the
\* label from the state at that time.
C5_Memoised ==
    [][ /\ (ReadPaymentStatus /\ cached_status # NotCached)
               => cached_status' = cached_status
        /\ (ReadPaymentStatus /\ cached_status = NotCached)
               => cached_status' = status_of(get_amount_paid, get_total("quote"))
        /\ (cached_status # NotCached /\ cached_status' # cached_status)
               => (LoadInstance /\ cached_status' = NotCached)
      ]_vars

C5_Witness ==
    /\ cached_status \in StatusLabels
    /\ cached_status # payment_status

RECURSIVE SumNet(_, _)
SumNet(cs, n) ==
    IF n = 0 THEN 0
    ELSE SumNet(cs, n - 1) + (cs[n].amount - cs[n].amount_refunded)

RECURSIVE SumUnits(_, _)
SumUnits(cs, n) ==
    IF n = 0 THEN 0
    ELSE SumUnits(cs, n - 1)
         + ((cs[n].amount \div 100) - (cs[n].amount_refunded \div 100))

\* C6 as stated: get_amount_paid is the sum of amount - amount_refunded over
\* the charges of the recorded payment references, 0 for an empty list.
C6_Original ==
    /\ get_amount_paid = SumNet(get_charges, Len(get_charges))
    /\ (get_payments = <<>> => get_amount_paid = 0)

\* C6, amended: get_amount_paid is the sum, over the charges of the recorded
\* payment references, of amount / 100 - amount_refunded / 100 with each
\* quotient rounded down, and 0 for an empty payment list.
C6_AmountPaid ==
    /\ get_amount_paid = SumUnits(get_charges, Len(get_charges))
    /\ (get_payments = <<>> => get_amount_paid = 0)

C6_Witness ==
    /\ Len(get_charges) >= 2
    /\ \E i \in 1..Len(get_charges) : get_charges[i].amount_refunded > 0
    /\ \E i \in 1..Len(get_charges) : get_charges[i].amount_refunded = 0
    /\ get_amount_paid = 1

RECURSIVE SumItems(_, _)
SumItems(items, n) ==
    IF n = 0 THEN 0
    ELSE SumItems(items, n - 1) + items[n].unit_cost * items[n].quantity

\* C7: get_total of a quote or group quote is the sum of unit_cost * quantity
\* over what get_line_items returns for it, 0 when that is empty, and for a
\* delegating quote the group quote's total.
C7_Total ==
    /\ \A doc \in Docs :
          /\ get_total(doc) = SumItems(get_line_items(doc), Len(get_line_items(doc)))
          /\ (get_line_items(doc) = <<>> => get_total(doc) = 0)
    /\ get_total("group_quote") = SumItems(GroupItems, Len(GroupItems))
    /\ (use_group_quote => get_total("quote") = get_total("group_quote"))
    /\ (~use_group_quote => get_total("quote") = SumItems(OwnItems, Len(OwnItems)))

C7_Witness ==
    /\ group_quote # NoGroupQuote
    /\ OwnItems = <<>>
    /\ Len(GroupItems) = 2
    /\ get_total("quote") = 350


---------------------------------------------------------------------------
(* Properties of two interleaved requests, under SpecConc *)

Other(r) == 3 - r

\* C10: when both requests have read the same stored list before either
\* wrote, the second write completes too and leaves the stored list equal to
\* that earlier list plus the second writer's reference alone: the first
\* writer's reference is lost.
C10_LostUpdate ==
    [][ \A r \in Requests :
           ( /\ pc[r] = "read"
             /\ pc[Other(r)] = "done"
             /\ payments_local[Other(r)] = payments_local[r]
             /\ get_payments = Append(payments_local[r], stripe_customer[Other(r)])
             /\ WritePayments(r) )
           => ( /\ pc'[r] = "done" /\ pc'[Other(r)] = "done"
                /\ get_payments' = Append(payments_local[r], stripe_customer[r])
                /\ Len(get_payments') = Len(payments_local[r]) + 1 )
      ]_vars

C10_Witness ==
    /\ pc[1] = "done" /\ pc[2] = "done"
    /\ payments_local[1] = <<2>> /\ payments_local[2] = <<2>>
    /\ stripe_customer[1] = 1 /\ stripe_customer[2] = 2
    /\ get_payments = <<2, 2>>


---------------------------------------------------------------------------
(* Properties of wrap_data, under SpecWrap *)

WrittenKeys ==
    {"csrf_token", "request", "server", "rollbar_env", "css_rel", "css_ext",
     "asset_version", "user", "errors"}

\* C8 as stated: wrap_data leaves the request, the cache and the mapping the
\* caller passed unchanged.
C8_Original ==
    [][ wrap_data =>
           /\ request' = request
           /\ asset_cache' = asset_cache
           /\ caller_data' = caller_data
      ]_vars

\* C8, amended: wrap_data leaves the request, the settings and the cache
\* unchanged; a mapping passed by the caller is updated in place (the nine
\* keys wrap_data sets are added or overwritten, every other key keeps its
\* value) and is itself the return value; with no mapping passed, a new
\* mapping holding exactly the nine keys is returned.
C8_WrapDataFrame ==
    [][ wrap_data =>
           /\ request' = request /\ settings' = settings
           /\ asset_cache' = asset_cache /\ utc_hour' = utc_hour
           /\ DOMAIN returned' = DOMAIN caller_data \cup WrittenKeys
           /\ returned'["errors"] = Leaf("[]")
           /\ returned'["csrf_token"] = Leaf(request.csrf_token)
           /\ returned'["asset_version"]
                 = Leaf(IF asset_cache = NoVersion THEN utc_hour ELSE asset_cache)
           /\ returned'["user"]
                 = Leaf(IF request.user = AnonymousUser THEN "None" ELSE request.user)
           /\ \A k \in DOMAIN caller_data \ WrittenKeys : returned'[k] = caller_data[k]
           /\ IF data_passed
              THEN returned_is_data' /\ caller_data' = returned'
              ELSE ~returned_is_data' /\ caller_data' = caller_data
                   /\ DOMAIN returned' = WrittenKeys
      ]_vars

C8_Witness ==
    /\ data_passed /\ returned_is_data
    /\ DOMAIN caller_data = WrittenKeys \cup {"title"}
    /\ caller_data["title"] = Leaf("Quotes")
    /\ caller_data["user"] = Leaf("alice")
    /\ caller_data = returned


---------------------------------------------------------------------------
(* Properties of get_javascripts, under SpecJs *)

\* C9: for every template name and prefix, get_javascripts returns the
\* one-element list holding the candidate path when the loader can load it,
\* and the empty list otherwise, where the candidate is
\* prefix + 'admintools/fragments/js/' + rest for a name
\* prefix + 'admintools/' + rest, else prefix + 'fragments/js/' + rest for a
\* name prefix + rest, else 'fragments/js/' + name.
C9_Javascripts ==
    [][ render_to_response_custom =>
           LET candidate == LiteralCandidate(template_name, template_prefix)
           IN  javascripts' = IF candidate \in templates THEN <<candidate>> ELSE <<>>
      ]_vars

===========================================================================
